---------------------------- MODULE Spec2Model ----------------------------
(***************************************************************************)
(* Kalyna block cipher (DSTU 7624:2014), kalyna_optimized.c.               *)
(*                                                                         *)
(* A 64-bit word is a function 0..7 -> 0..255: entry k holds bits          *)
(* 8k..8k+7 of the word (its numeric value, independent of the host).      *)
(* A block is a function 0..nb-1 -> word; a byte array a function          *)
(* 0..n-1 -> 0..255 indexed as in the C code.                              *)
(***************************************************************************)
EXTENDS Integers, Sequences, FiniteSets, TLC

----------------------------------------------------------------------------
(* Program constants, transformations.h                                    *)

kBITS_IN_WORD == 64
kNB_128 == 2
kNB_256 == 4
kNB_512 == 8
kNK_128 == 2
kNK_256 == 4
kNK_512 == 8
kBLOCK_128 == kNB_128 * kBITS_IN_WORD
kBLOCK_256 == kNB_256 * kBITS_IN_WORD
kBLOCK_512 == kNB_512 * kBITS_IN_WORD
kKEY_128 == kNK_128 * kBITS_IN_WORD
kKEY_256 == kNK_256 * kBITS_IN_WORD
kKEY_512 == kNK_512 * kBITS_IN_WORD
kNR_128 == 10
kNR_256 == 14
kNR_512 == 18
kREDUCTION_POLYNOMIAL == 285
MAX_STATE_BYTES == 64

Byte == 0..255

----------------------------------------------------------------------------
(* Bit arithmetic on naturals                                              *)

RECURSIVE BitXor(_, _)
BitXor(a, b) ==
    IF a = 0 THEN b
    ELSE IF b = 0 THEN a
    ELSE ((a + b) % 2) + 2 * BitXor(a \div 2, b \div 2)

\* XOR of two 4-bit values, tabulated once.
XorNibble == [p \in 0..255 |-> BitXor(p \div 16, p % 16)]

\* The C operator ^ on two uint8_t values.
XorByte(a, b) ==
    16 * XorNibble[(a \div 16) * 16 + (b \div 16)] + XorNibble[(a % 16) * 16 + (b % 16)]

\* The function f with its values computed once: TLC evaluates a function
\* expression anew at every application unless it has been compared.
Materialize(f) == IF f = f THEN f ELSE f

\* TRUE; evaluating it computes the value v.  Used to fix the order in which TLC
\* evaluates the steps of a composite transformation.
Computed(v) == v = v

ZeroWord == [k \in 0..7 |-> 0]

\* uint64_t a + b: carry into byte k of the sum.
RECURSIVE CarryIn(_, _, _)
CarryIn(a, b, k) ==
    IF k = 0 THEN 0 ELSE (a[k - 1] + b[k - 1] + CarryIn(a, b, k - 1)) \div 256

AddWord(a, b) == Materialize([k \in 0..7 |-> (a[k] + b[k] + CarryIn(a, b, k)) % 256])

\* uint64_t a - b: borrow out of the bytes below k.
RECURSIVE BorrowIn(_, _, _)
BorrowIn(a, b, k) ==
    IF k = 0 THEN 0
    ELSE IF a[k - 1] - b[k - 1] - BorrowIn(a, b, k - 1) < 0 THEN 1 ELSE 0

\* SubWord without the borrow between bytes.
SubWordNoBorrow(a, b) == Materialize([k \in 0..7 |-> (256 + a[k] - b[k]) % 256])

SubWord(a, b) ==
    Materialize([k \in 0..7 |-> (256 + a[k] - b[k] - BorrowIn(a, b, k)) % 256])

XorWord(a, b) == Materialize([k \in 0..7 |-> XorByte(a[k], b[k])])

\* uint64_t w << 1
ShlWord(w) ==
    Materialize([k \in 0..7 |-> ((2 * w[k]) % 256) + (IF k = 0 THEN 0 ELSE w[k - 1] \div 128)])

\* The word whose value is the small number n (n < 256).
SmallWord(n) == [k \in 0..7 |-> IF k = 0 THEN n ELSE 0]

----------------------------------------------------------------------------
(* State                                                                   *)

VARIABLES
    bigEndian,   \* byte order of the host the library was built for
    block_size,  \* the harness's configuration (arguments of KalynaInit)
    key_size,
    handle,      \* the harness's kalyna_t* : "null", "live" or "dangling"
    heap,        \* allocation record of the buffers of the latest KalynaInit
    ctx,         \* the kalyna_t records, one per context
    pc,          \* per caller: its position in the current API call
    call,        \* per caller: the current / latest call and its locals
    hist,        \* observations of the run (history variable)
    sched        \* scheduling of the callers: mode, lock holder, switches

vars == <<bigEndian, block_size, key_size, handle, heap, ctx, pc, call, hist, sched>>

----------------------------------------------------------------------------
(* Codec: kalyna_optimized.c 149-167, 476-491                              *)

\* The 8 bytes of a uint64_t as they lie in memory on the host.
WordToMemory(w) == Materialize([j \in 0..7 |-> IF bigEndian THEN w[7 - j] ELSE w[j]])

\* The uint64_t read back from 8 bytes of memory on the host.
MemoryToWord(m) == Materialize([k \in 0..7 |-> IF bigEndian THEN m[7 - k] ELSE m[k]])

\* unsigned int num = 1; return *((uint8_t*)&num) == 0;
IsBigEndian == WordToMemory(SmallWord(1))[0] = 0

\* dst[i] = src[7 - i] on the memory images of the two words.
ReverseWord(word) ==
    LET src == WordToMemory(word)
        dst == [i \in 0..7 |-> src[7 - i]]
    IN MemoryToWord(dst)

WordsToBytes_Inline(nb, words) ==
    Materialize([j \in 0..(nb * 8 - 1) |->
        LET i == j \div 8
            w == IF IsBigEndian THEN ReverseWord(words[i]) ELSE words[i]
        IN WordToMemory(w)[j % 8]])

BytesToWords_Inline(nb, bytes) ==
    Materialize([i \in 0..(nb - 1) |->
        LET w == MemoryToWord([j \in 0..7 |-> bytes[i * 8 + j]])
        IN IF IsBigEndian THEN ReverseWord(w) ELSE w])

----------------------------------------------------------------------------
(* Constant tables (tables.h)                                              *)

\* Four byte substitutions and their inverses.
sboxes_enc ==
    [t \in 0..3 |-> [x \in Byte |-> XorByte(((2 * t + 3) * x + 29 * t + 168) % 256, 99)]]

sboxes_dec ==
    [t \in 0..3 |-> [y \in Byte |-> CHOOSE x \in Byte : sboxes_enc[t][x] = y]]

mds_row == <<1, 1, 5, 1, 8, 6, 7, 4>>
mds_inv_row == <<173, 149, 118, 168, 47, 73, 215, 202>>

\* Both matrices are circulant: row r is the first row rotated right by r.
mds_matrix == [row \in 0..7 |-> [b \in 0..7 |-> mds_row[((b - row + 8) % 8) + 1]]]
mds_inv_matrix == [row \in 0..7 |-> [b \in 0..7 |-> mds_inv_row[((b - row + 8) % 8) + 1]]]

----------------------------------------------------------------------------
(* Transformations: kalyna_optimized.c 119-261                             *)

SubBytes(nb, s) ==
    Materialize([i \in 0..(nb - 1) |-> [k \in 0..7 |-> sboxes_enc[k % 4][s[i][k]]]])

InvSubBytes(nb, s) ==
    Materialize([i \in 0..(nb - 1) |-> [k \in 0..7 |-> sboxes_dec[k % 4][s[i][k]]]])

\* RowShift without the test `row > 0`: the shift is already 1 at row 0.
RowShiftFromRowZero(nb, row) == Cardinality({r \in 0..row : r % (8 \div nb) = 0})

\* Value of `shift` in the body of the row loop at `row`.
RowShift(nb, row) == Cardinality({r \in 1..row : r % (8 \div nb) = 0})

ShiftedIndex(nb, row, col) == row + ((col + RowShift(nb, row)) % nb) * 8
PlainIndex(nb, row, col) == row + col * 8

\* The source index of the last write into nstate[j] by the loop
\*   for row, for col: nstate[dst(row, col)] = state[src(row, col)];
\* ShiftRows writes at the shifted index from the plain one, InvShiftRows
\* (inverse) at the plain index from the shifted one.
LastWrite(nb, j, inverse) ==
    LET dst(row, col) == IF inverse THEN PlainIndex(nb, row, col) ELSE ShiftedIndex(nb, row, col)
        src(row, col) == IF inverse THEN ShiftedIndex(nb, row, col) ELSE PlainIndex(nb, row, col)
        writes == {rc \in (0..7) \X (0..(nb - 1)) : dst(rc[1], rc[2]) = j}
        rc == CHOOSE w \in writes :
                  \A v \in writes : v[1] < w[1] \/ (v[1] = w[1] /\ v[2] <= w[2])
    IN src(rc[1], rc[2])

BlockWords == {kNB_128, kNB_256, kNB_512}

ShiftRowsSource ==
    [nb \in BlockWords |-> [j \in 0..(nb * 8 - 1) |-> LastWrite(nb, j, FALSE)]]

InvShiftRowsSource ==
    [nb \in BlockWords |-> [j \in 0..(nb * 8 - 1) |-> LastWrite(nb, j, TRUE)]]

ShiftRows(nb, s) ==
    LET state == WordsToBytes_Inline(nb, s)
        nstate == [j \in 0..(nb * 8 - 1) |-> state[ShiftRowsSource[nb][j]]]
    IN BytesToWords_Inline(nb, nstate)

InvShiftRows(nb, s) ==
    LET state == WordsToBytes_Inline(nb, s)
        nstate == [j \in 0..(nb * 8 - 1) |-> state[InvShiftRowsSource[nb][j]]]
    IN BytesToWords_Inline(nb, nstate)

\* MultiplyLoop without the reduction: x is only doubled, in 8 bits.
RECURSIVE MultiplyLoopNoReduce(_, _, _, _)
MultiplyLoopNoReduce(i, x, y, r) ==
    IF i = 8 THEN r
    ELSE LET r1 == IF y % 2 = 1 THEN XorByte(r, x) ELSE r
             x1 == (2 * x) % 256
         IN MultiplyLoopNoReduce(i + 1, x1, y \div 2, r1)

RECURSIVE MultiplyLoop(_, _, _, _)
MultiplyLoop(i, x, y, r) ==
    IF i = 8 THEN r
    ELSE LET r1 == IF y % 2 = 1 THEN XorByte(r, x) ELSE r
             hbit == (x \div 128) * 128
             x1 == (2 * x) % 256
             x2 == IF hbit = 128 THEN BitXor(x1, kREDUCTION_POLYNOMIAL) % 256 ELSE x1
         IN MultiplyLoop(i + 1, x2, y \div 2, r1)

MultiplyGF(x, y) == MultiplyLoop(0, x, y, 0)

\* MultiplyGF tabulated for the multipliers that occur in the two matrices.
MatrixEntries == {mds_row[i] : i \in 1..8} \cup {mds_inv_row[i] : i \in 1..8}
GFProduct == [y \in MatrixEntries |-> [x \in Byte |-> MultiplyGF(x, y)]]

\* product ^= MultiplyGF(state[b + col * 8], matrix[row][b]) for b = 7 .. 0
RECURSIVE ColumnProduct(_, _, _, _)
ColumnProduct(state, col, mrow, b) ==
    IF b < 0 THEN 0
    ELSE XorByte(ColumnProduct(state, col, mrow, b - 1), GFProduct[mrow[b]][state[b + col * 8]])

MatrixMultiply(nb, s, matrix) ==
    LET state == WordsToBytes_Inline(nb, s)
    IN Materialize([col \in 0..(nb - 1) |->
                       [row \in 0..7 |-> ColumnProduct(state, col, matrix[row], 7)]])

MixColumns(nb, s) == MatrixMultiply(nb, s, mds_matrix)
InvMixColumns(nb, s) == MatrixMultiply(nb, s, mds_inv_matrix)

EncipherRound(nb, s) ==
    LET a == SubBytes(nb, s)
        b == ShiftRows(nb, a)
    IN IF Computed(s) /\ Computed(a) /\ Computed(b) THEN MixColumns(nb, b) ELSE s

DecipherRound(nb, s) ==
    LET a == InvMixColumns(nb, s)
        b == InvShiftRows(nb, a)
    IN IF Computed(s) /\ Computed(a) /\ Computed(b) THEN InvSubBytes(nb, b) ELSE s

----------------------------------------------------------------------------
(* Key mixing and key-schedule helpers: kalyna_optimized.c 263-322          *)

AddRoundKeyExpand(nb, value, s) ==
    Materialize([i \in 0..(nb - 1) |-> AddWord(s[i], value[i])])
XorRoundKeyExpand(nb, value, s) ==
    Materialize([i \in 0..(nb - 1) |-> XorWord(s[i], value[i])])
AddRoundKey(nb, round, round_keys, s) ==
    Materialize([i \in 0..(nb - 1) |-> AddWord(s[i], round_keys[round][i])])
SubRoundKey(nb, round, round_keys, s) ==
    Materialize([i \in 0..(nb - 1) |-> SubWord(s[i], round_keys[round][i])])
XorRoundKey(nb, round, round_keys, s) ==
    Materialize([i \in 0..(nb - 1) |-> XorWord(s[i], round_keys[round][i])])

\* Rotate(state_size, state_value): the first state_size words, one word left.
\* Rotate in the other direction: the last word moves to the front.
RotateRight(state_size, state_value) ==
    Materialize([i \in DOMAIN state_value |->
        IF i = 0 THEN state_value[state_size - 1]
        ELSE IF i <= state_size - 1 THEN state_value[i - 1]
        ELSE state_value[i]])

Rotate(state_size, state_value) ==
    Materialize([i \in DOMAIN state_value |->
        IF i < state_size - 1 THEN state_value[i + 1]
        ELSE IF i = state_size - 1 THEN state_value[0]
        ELSE state_value[i]])

ShiftLeft(state_size, state_value) ==
    Materialize([i \in DOMAIN state_value |->
        IF i < state_size THEN ShlWord(state_value[i]) ELSE state_value[i]])

RotateLeft(state_size, state_value) ==
    LET rotate_bytes == 2 * state_size + 3
        bytes_num == state_size * 8
        bytes == WordsToBytes_Inline(state_size, state_value)
        rotated == [j \in 0..(bytes_num - 1) |->
                       IF j < bytes_num - rotate_bytes THEN bytes[j + rotate_bytes]
                       ELSE bytes[j - (bytes_num - rotate_bytes)]]
    IN BytesToWords_Inline(state_size, rotated)

----------------------------------------------------------------------------
(* Bounds and inputs                                                       *)

NumKeys == 2
NumPlain == 2

\* Sizes the harness may pass to KalynaInit.
SizeChoices == {64, 128, 256, 384, 512}

\* Key material: key 1 is the benchmark's pattern 0x0706050403020100 + i * 0x08..08.
KeyOf(n, nk) ==
    [i \in 0..(nk - 1) |-> [j \in 0..7 |-> (8 * i + j + (n - 1) * (91 + 40 * i + 17 * j)) % 256]]

\* Blocks: block 1 is the benchmark's pattern 0x1716151413121110 + i * 0x08..08,
\* the others carry high bytes so that the modular additions wrap.
BlockOf(n, nb) ==
    [i \in 0..(nb - 1) |-> [j \in 0..7 |-> (16 + 8 * i + j + (n - 1) * (231 + 3 * i + 50 * j)) % 256]]

Callers == {1, 2}
CtxIds == {1, 2}
None == <<>>

----------------------------------------------------------------------------
(* Context construction and teardown: kalyna_optimized.c 24-116            *)

NoCtx == [nb |-> 0, nk |-> 0, nr |-> 0, state |-> None, round_keys |-> None]

\* calloc(nb, 8) and the nr + 1 round-key buffers, zero-filled.
NewCtx(nb, nk, nr) ==
    [nb |-> nb, nk |-> nk, nr |-> nr,
     state |-> [i \in 0..(nb - 1) |-> ZeroWord],
     round_keys |-> [r \in 0..nr |-> [i \in 0..(nb - 1) |-> ZeroWord]]]

\* ParamsFor with the 512-bit block branch testing the key sizes of the
\* 256-bit branch as well.
ParamsForLoose(bs, ks) ==
    IF bs = kBLOCK_128 /\ ks \in {kKEY_128, kKEY_256}
    THEN [valid |-> TRUE, nb |-> kNB_128, nk |-> ks \div kBITS_IN_WORD,
          nr |-> IF ks = kKEY_128 THEN kNR_128 ELSE kNR_256]
    ELSE IF bs \in {kBLOCK_256, kBLOCK_512} /\ ks \in {kKEY_256, kKEY_512}
    THEN [valid |-> TRUE, nb |-> bs \div kBITS_IN_WORD, nk |-> ks \div kBITS_IN_WORD,
          nr |-> IF ks = kKEY_256 THEN kNR_256 ELSE kNR_512]
    ELSE [valid |-> FALSE, nb |-> 0, nk |-> 0, nr |-> 0]

\* The if-chain of KalynaInit on (block_size, key_size).
ParamsFor(bs, ks) ==
    IF bs = kBLOCK_128 THEN
        IF ks = kKEY_128 THEN [valid |-> TRUE, nb |-> kBLOCK_128 \div kBITS_IN_WORD,
                               nk |-> kKEY_128 \div kBITS_IN_WORD, nr |-> kNR_128]
        ELSE IF ks = kKEY_256 THEN [valid |-> TRUE, nb |-> kBLOCK_128 \div kBITS_IN_WORD,
                               nk |-> kKEY_256 \div kBITS_IN_WORD, nr |-> kNR_256]
        ELSE [valid |-> FALSE, nb |-> kBLOCK_128 \div kBITS_IN_WORD, nk |-> 0, nr |-> 0]
    ELSE IF bs = 256 THEN
        IF ks = kKEY_256 THEN [valid |-> TRUE, nb |-> kBLOCK_256 \div kBITS_IN_WORD,
                               nk |-> kKEY_256 \div kBITS_IN_WORD, nr |-> kNR_256]
        ELSE IF ks = kKEY_512 THEN [valid |-> TRUE, nb |-> kBLOCK_256 \div kBITS_IN_WORD,
                               nk |-> kKEY_512 \div kBITS_IN_WORD, nr |-> kNR_512]
        ELSE [valid |-> FALSE, nb |-> kBLOCK_256 \div kBITS_IN_WORD, nk |-> 0, nr |-> 0]
    ELSE IF bs = kBLOCK_512 THEN
        IF ks = kKEY_512 THEN [valid |-> TRUE, nb |-> kBLOCK_512 \div kBITS_IN_WORD,
                               nk |-> kKEY_512 \div kBITS_IN_WORD, nr |-> kNR_512]
        ELSE [valid |-> FALSE, nb |-> kBLOCK_512 \div kBITS_IN_WORD, nk |-> 0, nr |-> 0]
    ELSE [valid |-> FALSE, nb |-> 0, nk |-> 0, nr |-> 0]

\* Allocation record.  Buffers: the context record, the state buffer, the
\* round-key pointer array, and round-key buffer i as <<"rk", i>>.
\*   live  : allocated and not released
\*   freed : released exactly once
\*   twice : released again after their release
\*   stale : some released memory has been read
CtxBuf == <<"ctx", 0>>
StateBuf == <<"state", 0>>
KeysBuf == <<"round_keys", 0>>

EmptyHeap == [live |-> {}, freed |-> {}, twice |-> {}, stale |-> FALSE]

Alloc(h, b) == [h EXCEPT !.live = @ \cup {b}]

\* free() of each buffer of B
Free(h, B) ==
    [h EXCEPT !.live = @ \ B,
              !.freed = @ \cup (B \cap h.live),
              !.twice = @ \cup (B \ h.live)]

RoundKeyBuffers(n) == {<<"rk", j>> : j \in 0..(n - 1)}

\* Allocation points of one KalynaInit call: 1 the context record, 2 the state
\* buffer, 3 the round-key pointer array, 4 + i round-key buffer i.  failAt
\* names the allocation that returns NULL (0: none does).
LastAllocPoint == 4 + kNR_512

\* InitOutcome without the loop that releases the round keys allocated before
\* the failing one.
InitOutcomeLeak(bs, ks, failAt) ==
    LET p == ParamsFor(bs, ks)
        h1 == Alloc(EmptyHeap, CtxBuf)
        h2 == Alloc(h1, StateBuf)
        h3 == Alloc(h2, KeysBuf)
        i == failAt - 4
        h4 == [h3 EXCEPT !.live = @ \cup RoundKeyBuffers(i)]
        hAll == [h3 EXCEPT !.live = @ \cup RoundKeyBuffers(p.nr + 1)]
        Fail(h, oom) == [ok |-> FALSE, rec |-> NoCtx, heap |-> h, oom |-> oom]
    IN IF failAt = 1 THEN Fail(EmptyHeap, TRUE)
       ELSE IF ~p.valid THEN Fail(Free(h1, {CtxBuf}), FALSE)
       ELSE IF failAt = 2 THEN Fail(Free(h1, {CtxBuf}), TRUE)
       ELSE IF failAt = 3 THEN Fail(Free(Free(h2, {StateBuf}), {CtxBuf}), TRUE)
       ELSE IF failAt >= 4 /\ i <= p.nr
            THEN Fail(Free(Free(Free(h4, {KeysBuf}), {StateBuf}), {CtxBuf}), TRUE)
       ELSE [ok |-> TRUE, rec |-> NewCtx(p.nb, p.nk, p.nr), heap |-> hAll, oom |-> FALSE]

InitOutcome(bs, ks, failAt) ==
    LET p == ParamsFor(bs, ks)
        h1 == Alloc(EmptyHeap, CtxBuf)
        h2 == Alloc(h1, StateBuf)
        h3 == Alloc(h2, KeysBuf)
        i == failAt - 4
        h4 == [h3 EXCEPT !.live = @ \cup RoundKeyBuffers(i)]
        hAll == [h3 EXCEPT !.live = @ \cup RoundKeyBuffers(p.nr + 1)]
        Fail(h, oom) == [ok |-> FALSE, rec |-> NoCtx, heap |-> h, oom |-> oom]
    IN IF failAt = 1 THEN Fail(EmptyHeap, TRUE)
       ELSE IF ~p.valid THEN Fail(Free(h1, {CtxBuf}), FALSE)
       ELSE IF failAt = 2 THEN Fail(Free(h1, {CtxBuf}), TRUE)
       ELSE IF failAt = 3 THEN Fail(Free(Free(h2, {StateBuf}), {CtxBuf}), TRUE)
       ELSE IF failAt >= 4 /\ i <= p.nr
            THEN Fail(Free(Free(Free(Free(h4, RoundKeyBuffers(i)), {KeysBuf}), {StateBuf}), {CtxBuf}), TRUE)
       ELSE [ok |-> TRUE, rec |-> NewCtx(p.nb, p.nk, p.nr), heap |-> hAll, oom |-> FALSE]

----------------------------------------------------------------------------
(* Callers                                                                 *)

\* A caller's call record: the API call it is in (or has just returned from),
\* the context it was given, its input and output buffers, the locals of the
\* call, and what the call has done so far (writes, trace).
IdleCall ==
    [op |-> "none", c |-> 0, arg |-> None, src |-> None, ret |-> None,
     created |-> FALSE, keyid |-> 0, prevkey |-> 0, round |-> 0, i |-> 0,
     kt |-> None, initial_data |-> None, tmv |-> None,
     writes |-> <<>>, trace |-> <<>>]

\* hist: op, oom, onhandle  the harness's latest lifecycle call, whether an
\*                           allocation failed in it, the handle it was given
\*       expanded[c]         a KalynaKeyExpand has completed on context c
\*       keyid[c]            the key of the latest completed expansion on c
\*       ref                 the first schedule a KalynaKeyExpand completed in
\*                           this run, and its key
NoRef == [keyid |-> 0, round_keys |-> None]

\* sched.mode: "single"   one caller, one context (the benchmark harness)
\*             "setup"    caller 1 alone prepares two contexts
\*             "distinct" two callers, each on its own context
\*             "locked"   two callers on one context, each call under a mutex
\*             "shared"   two callers on one context, unsynchronised
\* sched.holder is the caller inside a call under the mutex (0: none),
\* sched.running the caller that took the latest step, sched.switches the
\* number of preemptions of an unfinished call so far.
MaxSwitches == 1

Runnable(t) ==
    CASE sched.mode = "single" -> t = 1
      [] sched.mode = "setup" -> t = 1
      [] sched.mode = "distinct" -> TRUE
      [] sched.mode = "locked" -> sched.holder \in {0, t}
      [] sched.mode = "shared" ->
            IF sched.running \in {0, t} THEN TRUE
            ELSE IF pc[sched.running] = "idle" THEN TRUE
            ELSE sched.switches < MaxSwitches

\* The scheduling record after caller t has taken a step that leaves it at pc value `at`.
Ran(t, at) ==
    [sched EXCEPT
        !.holder = IF sched.mode = "locked" THEN (IF at = "idle" THEN 0 ELSE t) ELSE @,
        !.running = t,
        !.switches = IF sched.mode = "shared" /\ sched.running \notin {0, t}
                        /\ pc[sched.running] # "idle"
                     THEN @ + 1 ELSE @]

\* Caller t moves to `at` with call record `rec`; the context c gets state buffer s.
Step(t, at, rec, c, s) ==
    /\ pc' = [pc EXCEPT ![t] = at]
    /\ call' = [call EXCEPT ![t] = rec]
    /\ ctx' = [ctx EXCEPT ![c].state = s]
    /\ sched' = Ran(t, at)
    /\ UNCHANGED <<bigEndian, block_size, key_size, handle, heap>>

Logged(rec, event) == [rec EXCEPT !.trace = Append(@, event)]

----------------------------------------------------------------------------
(* KalynaEncipher: kalyna_optimized.c 425-437                              *)

\* KalynaEncipher without the memcpy that loads the plaintext: the rounds run
\* on what the previous call left in the state buffer.
KalynaEncipherNoLoad(t, c, plaintext, src) ==
    /\ pc[t] = "idle" /\ handle = "live" /\ Runnable(t)
    /\ Step(t, "enc_add0",
            [IdleCall EXCEPT !.op = "Encipher", !.c = c, !.arg = plaintext, !.src = src,
                             !.created = ~hist.expanded[c]],
            c, ctx[c].state)
    /\ UNCHANGED hist

\* Entry and memcpy(ctx->state, plaintext, ...)
KalynaEncipher(t, c, plaintext, src) ==
    /\ pc[t] = "idle" /\ handle = "live" /\ Runnable(t)
    /\ Step(t, "enc_add0",
            [IdleCall EXCEPT !.op = "Encipher", !.c = c, !.arg = plaintext, !.src = src,
                             !.created = ~hist.expanded[c]],
            c, plaintext)
    /\ UNCHANGED hist

\* AddRoundKey(0, ctx); round = 1
EncAddFirst(t) ==
    LET r == call[t]   x == ctx[r.c]
    IN /\ pc[t] = "enc_add0" /\ Runnable(t)
       /\ Step(t, IF 1 < x.nr THEN "enc_round" ELSE "enc_last",
               Logged([r EXCEPT !.round = 1], <<"add", 0>>),
               r.c, AddRoundKey(x.nb, 0, x.round_keys, x.state))
       /\ UNCHANGED hist

\* EncipherRound(ctx) in the loop
EncRound(t) ==
    LET r == call[t]   x == ctx[r.c]
    IN /\ pc[t] = "enc_round" /\ Runnable(t)
       /\ Step(t, "enc_xor", Logged(r, <<"round">>), r.c, EncipherRound(x.nb, x.state))
       /\ UNCHANGED hist

\* EncXor with the loop running while round <= nr.
EncXorOneMore(t) ==
    LET r == call[t]   x == ctx[r.c]
    IN /\ pc[t] = "enc_xor" /\ Runnable(t)
       /\ Step(t, IF r.round + 1 <= x.nr THEN "enc_round" ELSE "enc_last",
               Logged([r EXCEPT !.round = @ + 1], <<"xor", r.round>>),
               r.c, XorRoundKey(x.nb, r.round, x.round_keys, x.state))
       /\ UNCHANGED hist

\* XorRoundKey(round, ctx); ++round; round < nr ?
EncXor(t) ==
    LET r == call[t]   x == ctx[r.c]
    IN /\ pc[t] = "enc_xor" /\ Runnable(t)
       /\ Step(t, IF r.round + 1 < x.nr THEN "enc_round" ELSE "enc_last",
               Logged([r EXCEPT !.round = @ + 1], <<"xor", r.round>>),
               r.c, XorRoundKey(x.nb, r.round, x.round_keys, x.state))
       /\ UNCHANGED hist

\* EncipherRound(ctx) after the loop
EncLastRound(t) ==
    LET r == call[t]   x == ctx[r.c]
    IN /\ pc[t] = "enc_last" /\ Runnable(t)
       /\ Step(t, "enc_addnr", Logged(r, <<"round">>), r.c, EncipherRound(x.nb, x.state))
       /\ UNCHANGED hist

\* AddRoundKey(ctx->nr, ctx)
EncAddLast(t) ==
    LET r == call[t]   x == ctx[r.c]
    IN /\ pc[t] = "enc_addnr" /\ Runnable(t)
       /\ Step(t, "enc_out", Logged(r, <<"add", x.nr>>),
               r.c, AddRoundKey(x.nb, x.nr, x.round_keys, x.state))
       /\ UNCHANGED hist

\* memcpy(ciphertext, ctx->state, ...) and return
EncReturn(t) ==
    LET r == call[t]   x == ctx[r.c]
    IN /\ pc[t] = "enc_out" /\ Runnable(t)
       /\ Step(t, "idle", [r EXCEPT !.ret = x.state], r.c, x.state)
       /\ UNCHANGED hist

----------------------------------------------------------------------------
(* KalynaDecipher: kalyna_optimized.c 439-451                              *)

\* Entry and memcpy(ctx->state, ciphertext, ...)
KalynaDecipher(t, c, ciphertext, src) ==
    /\ pc[t] = "idle" /\ handle = "live" /\ Runnable(t)
    /\ Step(t, "dec_subnr",
            [IdleCall EXCEPT !.op = "Decipher", !.c = c, !.arg = ciphertext, !.src = src,
                             !.created = ~hist.expanded[c]],
            c, ciphertext)
    /\ UNCHANGED hist

\* SubRoundKey(ctx->nr, ctx); round = nr - 1
DecSubFirst(t) ==
    LET r == call[t]   x == ctx[r.c]
    IN /\ pc[t] = "dec_subnr" /\ Runnable(t)
       /\ Step(t, IF x.nr - 1 > 0 THEN "dec_round" ELSE "dec_last",
               Logged([r EXCEPT !.round = x.nr - 1], <<"sub", x.nr>>),
               r.c, SubRoundKey(x.nb, x.nr, x.round_keys, x.state))
       /\ UNCHANGED hist

\* DecipherRound(ctx) in the loop
DecRound(t) ==
    LET r == call[t]   x == ctx[r.c]
    IN /\ pc[t] = "dec_round" /\ Runnable(t)
       /\ Step(t, "dec_xor", Logged(r, <<"round">>), r.c, DecipherRound(x.nb, x.state))
       /\ UNCHANGED hist

\* XorRoundKey(round, ctx); --round; round > 0 ?
DecXor(t) ==
    LET r == call[t]   x == ctx[r.c]
    IN /\ pc[t] = "dec_xor" /\ Runnable(t)
       /\ Step(t, IF r.round - 1 > 0 THEN "dec_round" ELSE "dec_last",
               Logged([r EXCEPT !.round = @ - 1], <<"xor", r.round>>),
               r.c, XorRoundKey(x.nb, r.round, x.round_keys, x.state))
       /\ UNCHANGED hist

\* DecipherRound(ctx) after the loop
DecLastRound(t) ==
    LET r == call[t]   x == ctx[r.c]
    IN /\ pc[t] = "dec_last" /\ Runnable(t)
       /\ Step(t, "dec_sub0", Logged(r, <<"round">>), r.c, DecipherRound(x.nb, x.state))
       /\ UNCHANGED hist

\* SubRoundKey(0, ctx)
DecSubLast(t) ==
    LET r == call[t]   x == ctx[r.c]
    IN /\ pc[t] = "dec_sub0" /\ Runnable(t)
       /\ Step(t, "dec_out", Logged(r, <<"sub", 0>>),
               r.c, SubRoundKey(x.nb, 0, x.round_keys, x.state))
       /\ UNCHANGED hist

\* memcpy(plaintext, ctx->state, ...) and return
DecReturn(t) ==
    LET r == call[t]   x == ctx[r.c]
    IN /\ pc[t] = "dec_out" /\ Runnable(t)
       /\ Step(t, "idle", [r EXCEPT !.ret = x.state], r.c, x.state)
       /\ UNCHANGED hist

----------------------------------------------------------------------------
(* KalynaKeyExpand: kalyna_optimized.c 325-422                             *)

\* KeyExpandKt without the memset of the state buffer.
KeyExpandKtNoMemset(nb, nk, key, state) ==
    LET s0 == [state EXCEPT ![0] = AddWord(@, SmallWord(nb + nk + 1))]
        k0 == [i \in 0..(nb - 1) |-> key[i]]
        k1 == IF nb = nk THEN [i \in 0..(nb - 1) |-> key[i]]
                         ELSE [i \in 0..(nb - 1) |-> key[nb + i]]
        s1 == EncipherRound(nb, AddRoundKeyExpand(nb, k0, s0))
        s2 == EncipherRound(nb, XorRoundKeyExpand(nb, k1, s1))
    IN IF Computed(s1) /\ Computed(s2)
       THEN EncipherRound(nb, AddRoundKeyExpand(nb, k0, s2)) ELSE state

\* KeyExpandKt(key, ctx, kt): the state buffer it leaves, which is also kt.
\* `state` is the state buffer as the call finds it.
KeyExpandKt(nb, nk, key, state) ==
    LET zeroed == [i \in 0..(nb - 1) |-> ZeroWord]
        s0 == [zeroed EXCEPT ![0] = AddWord(@, SmallWord(nb + nk + 1))]
        k0 == [i \in 0..(nb - 1) |-> key[i]]
        k1 == IF nb = nk THEN [i \in 0..(nb - 1) |-> key[i]]
                         ELSE [i \in 0..(nb - 1) |-> key[nb + i]]
        s1 == EncipherRound(nb, AddRoundKeyExpand(nb, k0, s0))
        s2 == EncipherRound(nb, XorRoundKeyExpand(nb, k1, s1))
    IN IF Computed(s1) /\ Computed(s2)
       THEN EncipherRound(nb, AddRoundKeyExpand(nb, k0, s2)) ELSE state

\* One even round key (lines 364-374 with offset 0, lines 386-396 with offset
\* nb): the state buffer after the last AddRoundKeyExpand.
EvenRoundKey(nb, kt, tmv, initial_data, offset) ==
    LET kt_round == AddRoundKeyExpand(nb, tmv, kt)
        window == Materialize([i \in 0..(nb - 1) |-> initial_data[offset + i]])
        s1 == EncipherRound(nb, AddRoundKeyExpand(nb, kt_round, window))
        s2 == EncipherRound(nb, XorRoundKeyExpand(nb, kt_round, s1))
    IN IF Computed(kt_round) /\ Computed(s1) /\ Computed(s2)
       THEN AddRoundKeyExpand(nb, kt_round, s2) ELSE kt

\* memcpy(ctx->round_keys[index], block, ...); an index past the array does
\* not land in the schedule.
StoreRoundKey(round_keys, index, block) ==
    IF index \in DOMAIN round_keys THEN [round_keys EXCEPT ![index] = block] ELSE round_keys

\* A key-schedule step of caller t: it moves to `at` with call record rec and
\* leaves state buffer s and round keys rk in its context.
KeyStep(t, at, rec, s, rk) ==
    /\ pc' = [pc EXCEPT ![t] = at]
    /\ call' = [call EXCEPT ![t] = rec]
    /\ ctx' = [ctx EXCEPT ![rec.c].state = s, ![rec.c].round_keys = rk]
    /\ sched' = Ran(t, at)
    /\ UNCHANGED <<bigEndian, block_size, key_size, handle, heap>>

\* Entry and KeyExpandKt(key, ctx, kt)
KalynaKeyExpand(t, c, keyid) ==
    LET x == ctx[c]
        key == KeyOf(keyid, x.nk)
        kt == KeyExpandKt(x.nb, x.nk, key, x.state)
    IN /\ pc[t] = "idle" /\ handle = "live" /\ Runnable(t)
       /\ KeyStep(t, "ke_even_begin",
                  [IdleCall EXCEPT !.op = "KeyExpand", !.c = c, !.arg = key, !.keyid = keyid,
                                   !.created = ~hist.expanded[c], !.prevkey = hist.keyid[c],
                                   !.kt = kt],
                  kt, x.round_keys)
       /\ UNCHANGED hist

\* KeyExpandEven, lines 356-361: initial_data, tmv, round = 0
KeyEvenBegin(t) ==
    LET r == call[t]   x == ctx[r.c]
    IN /\ pc[t] = "ke_even_begin" /\ Runnable(t)
       /\ KeyStep(t, "ke_even_first",
                  [r EXCEPT !.initial_data = [i \in 0..(x.nk - 1) |-> r.arg[i]],
                            !.tmv = [i \in 0..(x.nb - 1) |-> [k \in 0..7 |-> IF k % 2 = 0 THEN 1 ELSE 0]],
                            !.round = 0],
                  x.state, x.round_keys)
       /\ UNCHANGED hist

\* Where the loop goes after storing round key `round`; second is TRUE after
\* the store of line 398.
AfterEvenStore(nb, nk, nr, round, second) ==
    IF nr = round THEN "ke_odd"
    ELSE IF nk # nb /\ ~second THEN "ke_even_second"
    ELSE "ke_even_advance"

\* KeyExpandEven, lines 364-379: the round key at `round`
KeyEvenFirst(t) ==
    LET r == call[t]   x == ctx[r.c]
        s == EvenRoundKey(x.nb, r.kt, r.tmv, r.initial_data, 0)
    IN /\ pc[t] = "ke_even_first" /\ Runnable(t)
       /\ r.round <= x.nr + 2
       /\ KeyStep(t, AfterEvenStore(x.nb, x.nk, x.nr, r.round, FALSE),
                  [r EXCEPT !.writes = Append(@, r.round), !.i = IF x.nr = r.round THEN 1 ELSE @],
                  s, StoreRoundKey(x.round_keys, r.round, s))
       /\ UNCHANGED hist

\* KeyExpandEven, lines 381-401: the second round key of a double-length key
KeyEvenSecond(t) ==
    LET r == call[t]   x == ctx[r.c]
        round == r.round + 2
        tmv == ShiftLeft(x.nb, r.tmv)
        s == EvenRoundKey(x.nb, r.kt, tmv, r.initial_data, x.nb)
    IN /\ pc[t] = "ke_even_second" /\ Runnable(t)
       /\ KeyStep(t, AfterEvenStore(x.nb, x.nk, x.nr, round, TRUE),
                  [r EXCEPT !.round = round, !.tmv = tmv, !.writes = Append(@, round),
                            !.i = IF x.nr = round THEN 1 ELSE @],
                  s, StoreRoundKey(x.round_keys, round, s))
       /\ UNCHANGED hist

\* KeyExpandEven, lines 403-405: round += 2; ShiftLeft; Rotate
KeyEvenAdvance(t) ==
    LET r == call[t]   x == ctx[r.c]
    IN /\ pc[t] = "ke_even_advance" /\ Runnable(t)
       /\ KeyStep(t, "ke_even_first",
                  [r EXCEPT !.round = @ + 2,
                            !.tmv = ShiftLeft(x.nb, @),
                            !.initial_data = Rotate(x.nk, @)],
                  x.state, x.round_keys)
       /\ UNCHANGED hist

\* KeyOdd with the loop running while i < nr + 2.
KeyOddOneMore(t) ==
    LET r == call[t]   x == ctx[r.c]
    IN /\ pc[t] = "ke_odd" /\ Runnable(t)
       /\ r.i < x.nr + 2
       /\ KeyStep(t, "ke_odd",
                  [r EXCEPT !.i = @ + 2, !.writes = Append(@, r.i)],
                  x.state,
                  StoreRoundKey(x.round_keys, r.i, RotateLeft(x.nb, x.round_keys[r.i - 1])))
       /\ UNCHANGED hist

\* KeyExpandOdd, the loop body at i
KeyOdd(t) ==
    LET r == call[t]   x == ctx[r.c]
    IN /\ pc[t] = "ke_odd" /\ Runnable(t)
       /\ r.i < x.nr
       /\ KeyStep(t, "ke_odd",
                  [r EXCEPT !.i = @ + 2, !.writes = Append(@, r.i)],
                  x.state,
                  StoreRoundKey(x.round_keys, r.i, RotateLeft(x.nb, x.round_keys[r.i - 1])))
       /\ UNCHANGED hist

\* KeyExpandOdd leaves its loop; KalynaKeyExpand returns
KeyReturn(t) ==
    LET r == call[t]   x == ctx[r.c]
    IN /\ pc[t] = "ke_odd" /\ Runnable(t)
       /\ ~(r.i < x.nr)
       /\ KeyStep(t, "idle",
                  [r EXCEPT !.kt = None, !.initial_data = None, !.tmv = None],
                  x.state, x.round_keys)
       /\ hist' = [hist EXCEPT
                      !.expanded[r.c] = TRUE,
                      !.keyid[r.c] = r.keyid,
                      !.ref = IF @.keyid = 0
                              THEN [keyid |-> r.keyid, round_keys |-> x.round_keys] ELSE @]

----------------------------------------------------------------------------
(* The harness: KalynaInit and KalynaDelete on its one handle              *)

\* kalyna_t* ctx = KalynaInit(block_size, key_size), the allocation at
\* failAt failing.
KalynaInit(failAt) ==
    LET o == InitOutcome(block_size, key_size, failAt)
    IN /\ sched.mode = "single" /\ pc[1] = "idle" /\ handle # "live"
       /\ handle' = IF o.ok THEN "live" ELSE "null"
       /\ heap' = o.heap
       /\ ctx' = [ctx EXCEPT ![1] = o.rec]
       /\ call' = [call EXCEPT ![1] = IdleCall]
       /\ hist' = [hist EXCEPT !.op = "Init", !.oom = o.oom, !.expanded[1] = FALSE,
                                !.keyid[1] = 0]
       /\ UNCHANGED <<bigEndian, block_size, key_size, pc, sched>>

\* What KalynaDelete releases, given what its reads of ctx->state,
\* ctx->round_keys and ctx->round_keys[i] return.
DeleteFrees(h, statePtr, keysPtr, keys) ==
    LET h1 == IF statePtr THEN Free(h, {StateBuf}) ELSE h
        h2 == IF keysPtr THEN Free(Free(h1, keys), {KeysBuf}) ELSE h1
    IN Free(h2, {CtxBuf})

\* KalynaDelete(ctx) on the harness's handle.  On a released handle the reads
\* of *ctx are reads of released memory: each pointer read returns either the
\* old pointer or NULL.
KalynaDelete ==
    /\ sched.mode = "single" /\ pc[1] = "idle"
    /\ \/ /\ handle = "null"
          /\ UNCHANGED <<handle, heap, ctx>>
       \/ /\ handle = "live"
          /\ heap' = DeleteFrees(heap, TRUE, TRUE, RoundKeyBuffers(ctx[1].nr + 1))
          /\ handle' = "dangling"
          /\ ctx' = [ctx EXCEPT ![1] = NoCtx]
       \/ /\ handle = "dangling"
          /\ \E statePtr \in BOOLEAN, keysPtr \in BOOLEAN :
                heap' = [DeleteFrees(heap, statePtr, keysPtr,
                                     {b \in heap.freed \cup heap.twice : b[1] = "rk"})
                         EXCEPT !.stale = TRUE]
          /\ UNCHANGED <<handle, ctx>>
    /\ call' = [call EXCEPT ![1] = IdleCall]
    /\ hist' = [hist EXCEPT !.op = "Delete", !.oom = FALSE, !.onhandle = handle]
    /\ UNCHANGED <<bigEndian, block_size, key_size, pc, sched>>

----------------------------------------------------------------------------
(* Specification of the single-caller harness                              *)

InitHist ==
    [op |-> "none", oom |-> FALSE, onhandle |-> "null",
     expanded |-> [c \in CtxIds |-> FALSE], keyid |-> [c \in CtxIds |-> 0], ref |-> NoRef]

Init ==
    /\ bigEndian \in BOOLEAN
    /\ block_size \in SizeChoices
    /\ key_size \in SizeChoices
    /\ handle = "null"
    /\ heap = EmptyHeap
    /\ ctx = [c \in CtxIds |-> NoCtx]
    /\ pc = [t \in Callers |-> "idle"]
    /\ call = [t \in Callers |-> IdleCall]
    /\ hist = InitHist
    /\ sched = [mode |-> "single", holder |-> 0, running |-> 0, switches |-> 0]

\* The harness enciphers one of its plaintext blocks.
CallEncipher(t, c) ==
    \E n \in 1..NumPlain : KalynaEncipher(t, c, BlockOf(n, ctx[c].nb), None)

\* The harness deciphers the ciphertext its latest KalynaEncipher returned
\* (src remembers the plaintext it came from), or one of its blocks.
CallDecipher(t, c) ==
    \/ /\ call[t].op = "Encipher" /\ call[t].c = c
       /\ KalynaDecipher(t, c, call[t].ret, call[t].arg)
    \/ \E n \in 1..NumPlain : KalynaDecipher(t, c, BlockOf(n, ctx[c].nb), None)

CallKeyExpand(t, c) ==
    \E k \in 1..NumKeys : KalynaKeyExpand(t, c, k)

EncipherSteps(t) ==
    \/ EncAddFirst(t) \/ EncRound(t) \/ EncXor(t)
    \/ EncLastRound(t) \/ EncAddLast(t) \/ EncReturn(t)

DecipherSteps(t) ==
    \/ DecSubFirst(t) \/ DecRound(t) \/ DecXor(t)
    \/ DecLastRound(t) \/ DecSubLast(t) \/ DecReturn(t)

KeyExpandSteps(t) ==
    \/ KeyEvenBegin(t) \/ KeyEvenFirst(t) \/ KeyEvenSecond(t)
    \/ KeyEvenAdvance(t) \/ KeyOdd(t) \/ KeyReturn(t)

Next ==
    \/ \E failAt \in 0..LastAllocPoint : KalynaInit(failAt)
    \/ KalynaDelete
    \/ CallKeyExpand(1, 1)
    \/ CallEncipher(1, 1)
    \/ CallDecipher(1, 1)
    \/ KeyExpandSteps(1)
    \/ EncipherSteps(1)
    \/ DecipherSteps(1)

Spec == Init /\ [][Next]_vars

\* A call that has been entered keeps running: the caller's thread executes
\* the function to its return.  This is weak fairness of each step of
\* KalynaKeyExpand; for the three steps that compute a round key the enabling
\* condition of the step (its guard) is written out.
SpecFair ==
    /\ Spec
    /\ WF_vars(KeyEvenBegin(1))
    /\ \/ []<>~(pc[1] = "ke_even_first" /\ Runnable(1) /\ call[1].round <= ctx[call[1].c].nr + 2)
       \/ []<><<KeyEvenFirst(1)>>_vars
    /\ \/ []<>~(pc[1] = "ke_even_second" /\ Runnable(1))
       \/ []<><<KeyEvenSecond(1)>>_vars
    /\ WF_vars(KeyEvenAdvance(1))
    /\ \/ []<>~(pc[1] = "ke_odd" /\ Runnable(1) /\ call[1].i < ctx[call[1].c].nr)
       \/ []<><<KeyOdd(1)>>_vars
    /\ WF_vars(KeyReturn(1))

----------------------------------------------------------------------------
(* Two callers                                                             *)

\* Caller 1 creates two contexts and expands a key on each (key c on context
\* c), then runs each worker's call alone and keeps its output.  After that
\* the two workers make their calls at the same time: first each on its own
\* context, then both on context 1 under a mutex, then both on context 1 with
\* no synchronisation.  In the last mode the steps of the two calls
\* interleave with at most MaxSwitches preemptions of an unfinished call;
\* these are some of the outcomes of the data race, not all of them.
\*
\* sched.phase   position in the preparation: 0, 1 key expansions; 2, 3, 4
\*               the calls run alone; 5 ready
\* sched.job[t]  the call of worker t: its operation and its input block
\* sched.alone[t][c]  the output of worker t's call run alone on context c
\* sched.out[m][t]    the output of worker t's call in mode m
RaceSizes == {<<128, 128>>, <<128, 256>>, <<512, 512>>}

Jobs ==
    {[op |-> o, n |-> n] : o \in {"Encipher", "Decipher"}, n \in 1..NumPlain}
        \cup {[op |-> "KeyExpand", n |-> 0]}

\* Caller t makes the call of job j on context c; a KalynaKeyExpand job
\* expands the key the context already has.
StartJob(t, j, c) ==
    \/ j.op = "Encipher" /\ KalynaEncipher(t, c, BlockOf(j.n, ctx[c].nb), None)
    \/ j.op = "Decipher" /\ KalynaDecipher(t, c, BlockOf(j.n, ctx[c].nb), None)
    \/ j.op = "KeyExpand" /\ KalynaKeyExpand(t, c, hist.keyid[c])

RaceInit ==
    /\ bigEndian \in BOOLEAN
    /\ \E p \in RaceSizes : block_size = p[1] /\ key_size = p[2]
    /\ handle = "live"
    /\ heap = InitOutcome(block_size, key_size, 0).heap
    /\ ctx = [c \in CtxIds |-> InitOutcome(block_size, key_size, 0).rec]
    /\ pc = [t \in Callers |-> "idle"]
    /\ call = [t \in Callers |-> IdleCall]
    /\ hist = [InitHist EXCEPT !.op = "Init"]
    /\ \E j \in Jobs :
          sched = [mode |-> "setup", holder |-> 0, running |-> 0, switches |-> 0,
                   phase |-> 0,
                   job |-> [t \in Callers |-> IF t = 1 THEN [op |-> "Encipher", n |-> 1] ELSE j],
                   alone |-> [t \in Callers |-> [c \in CtxIds |-> None]],
                   out |-> [m \in {"distinct", "locked"} |-> [t \in Callers |-> None]]]

\* The worker and the context of the call run alone in phase 2, 3, 4.
AloneWorker == IF sched.phase = 2 THEN 1 ELSE 2
AloneCtx == IF sched.phase = 3 THEN 2 ELSE 1

RaceExpand ==
    /\ sched.mode = "setup" /\ sched.phase \in {0, 1} /\ call[1].op = "none"
    /\ KalynaKeyExpand(1, sched.phase + 1, sched.phase + 1)

RaceAlone ==
    /\ sched.mode = "setup" /\ sched.phase \in 2..4 /\ call[1].op = "none"
    /\ StartJob(1, sched.job[AloneWorker], AloneCtx)

\* Caller 1 takes the output of the call it has just made.
RaceRecord ==
    /\ sched.mode = "setup" /\ pc[1] = "idle" /\ call[1].op # "none"
    /\ sched' = [sched EXCEPT
                    !.phase = @ + 1,
                    !.alone = IF sched.phase \in 2..4
                              THEN [@ EXCEPT ![AloneWorker][AloneCtx] = call[1].ret] ELSE @]
    /\ call' = [call EXCEPT ![1] = IdleCall]
    /\ UNCHANGED <<bigEndian, block_size, key_size, handle, heap, ctx, pc, hist>>

\* The workers start.
RaceBegin ==
    /\ sched.mode = "setup" /\ sched.phase = 5
    /\ sched' = [sched EXCEPT !.mode = "distinct", !.running = 0, !.phase = 6]
    /\ UNCHANGED <<bigEndian, block_size, key_size, handle, heap, ctx, pc, call, hist>>

\* Worker t makes its call.
RaceCall(t) ==
    /\ sched.mode \in {"distinct", "locked", "shared"} /\ call[t].op = "none"
    /\ StartJob(t, sched.job[t], IF sched.mode = "distinct" THEN t ELSE 1)

\* Both calls have returned; the workers go on to the next mode.
RaceNextMode ==
    /\ sched.mode \in {"distinct", "locked"}
    /\ \A t \in Callers : pc[t] = "idle" /\ call[t].op # "none"
    /\ sched' = [sched EXCEPT
                    !.mode = IF @ = "distinct" THEN "locked" ELSE "shared",
                    !.out[sched.mode] = [t \in Callers |-> call[t].ret],
                    !.holder = 0, !.running = 0, !.switches = 0]
    /\ call' = [t \in Callers |-> IdleCall]
    /\ UNCHANGED <<bigEndian, block_size, key_size, handle, heap, ctx, pc, hist>>

RaceNext ==
    \/ RaceExpand
    \/ RaceAlone
    \/ RaceRecord
    \/ RaceBegin
    \/ RaceNextMode
    \/ \E t \in Callers : RaceCall(t)
    \/ \E t \in Callers : KeyExpandSteps(t)
    \/ \E t \in Callers : EncipherSteps(t)
    \/ \E t \in Callers : DecipherSteps(t)

SpecRace == RaceInit /\ [][RaceNext]_vars

----------------------------------------------------------------------------
(* ShiftRows and InvShiftRows on a context's state                         *)

\* A context of each block size holds a block in its state buffer (as after
\* the memcpy of KalynaEncipher); ShiftRows and InvShiftRows are applied to
\* it in any order, up to MaxApply times.  call[1] keeps the names of the
\* transformations applied (trace), the state before the latest one (arg) and
\* the state before the one before it (src).
MaxApply == 3

ShiftInit ==
    /\ bigEndian \in BOOLEAN
    /\ block_size \in {kBLOCK_128, kBLOCK_256, kBLOCK_512}
    /\ key_size = block_size
    /\ handle = "live"
    /\ heap = InitOutcome(block_size, key_size, 0).heap
    /\ \E n \in 1..NumPlain :
          ctx = [c \in CtxIds |->
                    IF c = 1
                    THEN [InitOutcome(block_size, key_size, 0).rec
                              EXCEPT !.state = BlockOf(n, block_size \div kBITS_IN_WORD)]
                    ELSE NoCtx]
    /\ pc = [t \in Callers |-> "idle"]
    /\ call = [t \in Callers |-> IdleCall]
    /\ hist = [InitHist EXCEPT !.op = "Init"]
    /\ sched = [mode |-> "transform", holder |-> 0, running |-> 0, switches |-> 0]

\* The call record after a transformation `name` applied to context 1.
Applied(name) ==
    [call EXCEPT ![1].trace = Append(@, name), ![1].src = call[1].arg, ![1].arg = ctx[1].state]

ApplyShiftRows ==
    /\ sched.mode = "transform" /\ Len(call[1].trace) < MaxApply
    /\ ctx' = [ctx EXCEPT ![1].state = ShiftRows(ctx[1].nb, @)]
    /\ call' = Applied("ShiftRows")
    /\ UNCHANGED <<bigEndian, block_size, key_size, handle, heap, pc, hist, sched>>

ApplyInvShiftRows ==
    /\ sched.mode = "transform" /\ Len(call[1].trace) < MaxApply
    /\ ctx' = [ctx EXCEPT ![1].state = InvShiftRows(ctx[1].nb, @)]
    /\ call' = Applied("InvShiftRows")
    /\ UNCHANGED <<bigEndian, block_size, key_size, handle, heap, pc, hist, sched>>

ShiftNext == ApplyShiftRows \/ ApplyInvShiftRows

SpecShift == ShiftInit /\ [][ShiftNext]_vars

----------------------------------------------------------------------------
(* MultiplyGF on every pair of bytes                                       *)

\* call[1].arg holds the arguments <<x, y>> of one MultiplyGF call, call[1].ret
\* the byte it returns.
MultiplyInit ==
    /\ bigEndian \in BOOLEAN
    /\ block_size = kBLOCK_128
    /\ key_size = kKEY_128
    /\ handle = "null"
    /\ heap = EmptyHeap
    /\ ctx = [c \in CtxIds |-> NoCtx]
    /\ pc = [t \in Callers |-> "idle"]
    /\ \E x \in Byte, y \in Byte :
          call = [t \in Callers |-> IF t = 1 THEN [IdleCall EXCEPT !.arg = <<x, y>>] ELSE IdleCall]
    /\ hist = InitHist
    /\ sched = [mode |-> "multiply", holder |-> 0, running |-> 0, switches |-> 0]

ApplyMultiplyGF ==
    /\ sched.mode = "multiply" /\ call[1].op = "none"
    /\ call' = [call EXCEPT ![1].op = "MultiplyGF",
                             ![1].ret = MultiplyGF(call[1].arg[1], call[1].arg[2])]
    /\ UNCHANGED <<bigEndian, block_size, key_size, handle, heap, ctx, pc, hist, sched>>

MultiplyNext == ApplyMultiplyGF

SpecMultiply == MultiplyInit /\ [][MultiplyNext]_vars

----------------------------------------------------------------------------
(* Indices the functions use                                               *)

\* ShiftRows and InvShiftRows: the indices into state[] and nstate[] of the
\* loop nest (lines 178-184 and 197-203).
ShiftRowsIndices(nb) ==
    {ShiftedIndex(nb, row, col) : row \in 0..7, col \in 0..(nb - 1)}
        \cup {PlainIndex(nb, row, col) : row \in 0..7, col \in 0..(nb - 1)}

\* MatrixMultiply: the indices b + col * 8 into state[] (line 234).
MatrixMultiplyIndices(nb) == {b + col * 8 : b \in 0..7, col \in 0..(nb - 1)}

\* WordsToBytes_Inline and BytesToWords_Inline: the bytes i * 8 .. i * 8 + 7 of
\* word i.
CodecIndices(nb) == {i * 8 + k : i \in 0..(nb - 1), k \in 0..7}

\* RotateLeft: the bytes of bytes[] and buffer[] its three copies touch
\* (lines 317-319); the length of the second copy is bytes_num - rotate_bytes.
RotateLeftIndices(state_size) ==
    LET rotate_bytes == 2 * state_size + 3
        bytes_num == state_size * 8
    IN (0..(rotate_bytes - 1))
           \cup (rotate_bytes..(rotate_bytes + (bytes_num - rotate_bytes) - 1))
           \cup ((bytes_num - rotate_bytes)..(bytes_num - 1))

\* KeyExpandEven with the second round key computed in every iteration.
EvenStageWindowBoth(nb, nk) == (0..(nb - 1)) \cup (nb..(2 * nb - 1))

\* KeyExpandEven: the words of initial_data[] copied into the state, lines 367
\* and 389 (the latter when nk != nb).
EvenStageWindow(nb, nk) ==
    (0..(nb - 1)) \cup (IF nk # nb THEN nb..(2 * nb - 1) ELSE {})

\* The words of the 8-word arrays of the key schedule: k0, k1 (KeyExpandKt),
\* kt (KalynaKeyExpand), initial_data, kt_round, tmv (KeyExpandEven), used by
\* the memcpy calls, by ShiftLeft(nb, tmv) and by Rotate(nk, initial_data).
ScratchIndices(nb, nk) ==
    (0..(nb - 1)) \cup (0..(nk - 1)) \cup EvenStageWindow(nb, nk)

\* The words of the caller's key KeyExpandKt and KeyExpandEven read.
KeyIndices(nb, nk) ==
    (0..(nb - 1)) \cup (IF nb = nk THEN {} ELSE nb..(2 * nb - 1)) \cup (0..(nk - 1))

\* The round-key indices a call has used so far: those of its key mixes and
\* those KalynaKeyExpand has stored at, with i - 1 for each odd i (line 411).
RoundKeyIndices(t) ==
    {call[t].trace[j][2] : j \in {k \in 1..Len(call[t].trace) : Len(call[t].trace[k]) = 2}}
        \cup {call[t].writes[j] : j \in 1..Len(call[t].writes)}
        \cup {call[t].writes[j] - 1 : j \in {k \in 1..Len(call[t].writes) : call[t].writes[k] % 2 = 1}}

----------------------------------------------------------------------------
(* Properties                                                              *)

Returned(t, op) == pc[t] = "idle" /\ call[t].op = op

\* C1: on a context whose key expansion has completed, deciphering the output
\* of KalynaEncipher(P) returns exactly P.
RoundTrip ==
    \A t \in Callers :
        (Returned(t, "Decipher") /\ call[t].src # None /\ ~call[t].created)
            => call[t].ret = call[t].src

RoundTripWitness ==
    \E t \in Callers :
        /\ Returned(t, "Decipher") /\ call[t].src # None /\ ~call[t].created
        /\ call[t].ret = call[t].src
        /\ call[t].arg # call[t].src
        /\ ctx[call[t].c].nb = kNB_512 /\ bigEndian

\* C2: KalynaInit returns a context exactly for the five supported pairs (when
\* no allocation fails), with nb = block_size/64, nk = key_size/64 and nr 10, 14
\* or 18 by key size; for any other pair it returns none and leaves nothing
\* allocated.
SupportedPairs == {<<128, 128>>, <<128, 256>>, <<256, 256>>, <<256, 512>>, <<512, 512>>}

InitValidates ==
    hist.op = "Init" =>
        LET supported == <<block_size, key_size>> \in SupportedPairs
        IN /\ handle = "live" =>
                /\ supported
                /\ ctx[1].nb = block_size \div 64
                /\ ctx[1].nk = key_size \div 64
                /\ ctx[1].nr = (CASE key_size = 128 -> 10 [] key_size = 256 -> 14 [] key_size = 512 -> 18)
           /\ (supported /\ ~hist.oom) => handle = "live"
           /\ ~supported => (handle = "null" /\ heap.live = {} /\ ctx[1] = NoCtx)

InitValidatesWitness ==
    /\ hist.op = "Init" /\ handle = "live"
    /\ block_size = 256 /\ key_size = 512
    /\ ctx[1].nb = 4 /\ ctx[1].nk = 8 /\ ctx[1].nr = 18

\* C3: an Encipher or Decipher call entered on a context still in the Created
\* state emits no output block.
RejectsCreated ==
    \A t \in Callers :
        (Returned(t, "Encipher") \/ Returned(t, "Decipher")) /\ call[t].created
            => call[t].ret = None

\* C4: in any sequence of KalynaDelete calls no buffer is released more than
\* once and no released memory is read.
DeleteIdempotent ==
    hist.op = "Delete" => (heap.twice = {} /\ ~heap.stale)

\* C5: when an allocation fails inside KalynaInit, every buffer the call
\* allocated has been released exactly once, nothing remains allocated and no
\* handle is returned.
InitFailureReleasesAll ==
    (hist.op = "Init" /\ hist.oom) =>
        /\ handle = "null"
        /\ ctx[1] = NoCtx
        /\ heap.live = {}
        /\ heap.twice = {}
        /\ ~heap.stale

InitFailureWitness ==
    /\ hist.op = "Init" /\ hist.oom /\ handle = "null"
    /\ {CtxBuf, StateBuf, KeysBuf, <<"rk", 0>>, <<"rk", 12>>} \subseteq heap.freed
    /\ <<"rk", 13>> \notin heap.freed

\* C6: the schedule a KalynaKeyExpand(key) leaves is the one the first
\* expansion of that key left in this run, whatever calls came in between and
\* whatever the context held when the call began.
ScheduleDeterministic ==
    \A t \in Callers :
        (Returned(t, "KeyExpand") /\ call[t].keyid = hist.ref.keyid)
            => ctx[call[t].c].round_keys = hist.ref.round_keys

\* A re-expansion over the schedule of another key reproduces the reference.
ScheduleWitness ==
    \E t \in Callers :
        /\ Returned(t, "KeyExpand") /\ call[t].keyid = hist.ref.keyid
        /\ call[t].prevkey \notin {0, call[t].keyid}
        /\ ctx[call[t].c].round_keys = hist.ref.round_keys

\* C8: KalynaKeyExpand terminates; the round keys it writes are 0, 2, .., nr in
\* the even-key stage and then 1, 3, .., nr - 1 in the odd-key stage, each once
\* and none greater than nr, so that at its return the schedule holds nr + 1
\* blocks, every index written once.
KeyExpandComplete ==
    /\ [](\A t \in Callers :
            LET r == call[t]
                nr == ctx[r.c].nr
                evens == nr \div 2 + 1
                expected(j) == IF j <= evens THEN 2 * (j - 1) ELSE 2 * (j - evens) - 1
                n == Len(r.writes)
            IN r.op = "KeyExpand" =>
                /\ n <= nr + 1
                /\ \A j \in 1..n : r.writes[j] = expected(j) /\ r.writes[j] <= nr
                /\ pc[t] \in {"ke_even_begin", "ke_even_first", "ke_even_second", "ke_even_advance"}
                      => n <= evens
                /\ pc[t] = "ke_odd" => n >= evens
                /\ pc[t] = "idle" =>
                      /\ n = nr + 1
                      /\ DOMAIN ctx[r.c].round_keys = 0..nr
                      /\ \A k \in 0..nr : Cardinality({j \in 1..n : r.writes[j] = k}) = 1)
    /\ \A t \in Callers : (call[t].op = "KeyExpand" /\ pc[t] # "idle") ~> (pc[t] = "idle")

KeyExpandCompleteWitness ==
    \E t \in Callers :
        /\ Returned(t, "KeyExpand")
        /\ ctx[call[t].c].nb = kNB_256 /\ ctx[call[t].c].nk = kNK_512
        /\ call[t].writes = <<0, 2, 4, 6, 8, 10, 12, 14, 16, 18, 1, 3, 5, 7, 9, 11, 13, 15, 17>>
        /\ \A k \in 0..kNR_512 : ctx[call[t].c].round_keys[k] # ctx[call[t].c].round_keys[(k + 1) % (kNR_512 + 1)]

\* C9: the steps of an Encipher call are: add key 0; then for r = 1 .. nr - 1
\* one EncipherRound and the XOR of key r; then one EncipherRound and add key nr.
\* The steps of a Decipher call are: subtract key nr; then for r = nr - 1 down
\* to 1 one DecipherRound and the XOR of key r; then one DecipherRound and
\* subtract key 0.  Every key is used once, with one round between two keys.
KeyOrder ==
    \A t \in Callers :
        LET r == call[t]
            nr == ctx[r.c].nr
            mix == IF r.op = "Encipher" THEN "add" ELSE "sub"
            index(m) == IF r.op = "Encipher" THEN m ELSE nr - m
            expected(j) == IF j % 2 = 0 THEN <<"round">>
                           ELSE IF j = 1 \/ j = 2 * nr + 1 THEN <<mix, index((j - 1) \div 2)>>
                           ELSE <<"xor", index((j - 1) \div 2)>>
        IN r.op \in {"Encipher", "Decipher"} =>
            /\ Len(r.trace) <= 2 * nr + 1
            /\ \A j \in 1..Len(r.trace) : r.trace[j] = expected(j)
            /\ pc[t] = "idle" => Len(r.trace) = 2 * nr + 1

KeyOrderWitness ==
    \E t \in Callers :
        /\ Returned(t, "Decipher") /\ call[t].src # None
        /\ ctx[call[t].c].nr = kNR_256
        /\ Len(call[t].trace) = 2 * kNR_256 + 1
        /\ call[t].trace[1] = <<"sub", 14>>
        /\ call[t].trace[2] = <<"round">>
        /\ call[t].trace[3] = <<"xor", 13>>
        /\ call[t].trace[27] = <<"xor", 1>>
        /\ call[t].trace[29] = <<"sub", 0>>

\* C10 (as the code has it): at the end of every iteration of the even-key
\* loop every word of tmv is shifted left by one bit and initial_data is
\* rotated left by one word within its nk words (the first word moves to the
\* end), whether or not nk = nb.
EvenStageAdvance ==
    [][\A t \in Callers :
          (pc[t] = "ke_even_advance" /\ pc'[t] = "ke_even_first") =>
              LET nb == ctx[call[t].c].nb
                  nk == ctx[call[t].c].nk
                  old == call[t]
              IN /\ call'[t].tmv = [i \in 0..(nb - 1) |->
                        [k \in 0..7 |-> ((2 * old.tmv[i][k]) % 256)
                                          + (IF k = 0 THEN 0 ELSE old.tmv[i][k - 1] \div 128)]]
                 /\ call'[t].initial_data = [i \in 0..(nk - 1) |-> old.initial_data[(i + 1) % nk]]
                 /\ call'[t].round = old.round + 2]_vars

\* The second iteration of the loop on a double-length key works on the key
\* rotated by one word.
EvenStageAdvanceWitness ==
    \E t \in Callers :
        /\ pc[t] = "ke_even_first" /\ call[t].round = 4
        /\ ctx[call[t].c].nk # ctx[call[t].c].nb
        /\ call[t].initial_data[0] = call[t].arg[1]
        /\ call[t].initial_data[ctx[call[t].c].nk - 1] = call[t].arg[0]
        /\ call[t].tmv[0][0] = 4

\* C10 as stated: every word of tmv is shifted left by one bit and, when
\* nk # nb, initial_data is rotated left by nb words (its first nb-word block
\* moves to the end).
EvenStageRotatesBlock ==
    [][\A t \in Callers :
          (pc[t] = "ke_even_advance" /\ pc'[t] = "ke_even_first") =>
              LET nb == ctx[call[t].c].nb
                  nk == ctx[call[t].c].nk
                  old == call[t]
              IN /\ call'[t].tmv = [i \in 0..(nb - 1) |->
                        [k \in 0..7 |-> ((2 * old.tmv[i][k]) % 256)
                                          + (IF k = 0 THEN 0 ELSE old.tmv[i][k - 1] \div 128)]]
                 /\ nk # nb =>
                        call'[t].initial_data = [i \in 0..(nk - 1) |-> old.initial_data[(i + nb) % nk]]]_vars

\* C7: an Encipher or Decipher call made while the other worker calls on
\* another context, or on the same context under the mutex, returns the output
\* it returns when run alone, in every interleaving of the two calls' steps.
SerializedAsAlone ==
    \A t \in Callers :
        (/\ sched.mode \in {"distinct", "locked"}
         /\ (Returned(t, "Encipher") \/ Returned(t, "Decipher")))
            => call[t].ret = sched.alone[t][call[t].c]

\* The data race: the same call that returned its run-alone output in the two
\* modes above returns another output when the two workers call on context 1
\* with no synchronisation.
DataRaceWitness ==
    \E t \in Callers :
        /\ sched.mode = "shared"
        /\ Returned(t, "Encipher") \/ Returned(t, "Decipher")
        /\ sched.out["distinct"][t] = sched.alone[t][t]
        /\ sched.out["locked"][t] = sched.alone[t][1]
        /\ call[t].ret # sched.alone[t][1]

\* C11: for nb = 2, 4, 8, ShiftRows moves the byte at row r, column c to
\* column (c + shift(r)) mod nb of the same row, with shift(r) = r div (8 / nb);
\* this is a permutation of the nb * 8 byte positions; InvShiftRows moves the
\* bytes back, so that InvShiftRows(ShiftRows(S)) = S.
ShiftRowsInverse ==
    sched.mode = "transform" =>
        LET nb == ctx[1].nb
            tr == call[1].trace
            n == Len(tr)
            now == ctx[1].state
            before == call[1].arg
            shift(r) == r \div (8 \div nb)
            target(r, c) == <<r, (c + shift(r)) % nb>>
        IN /\ Cardinality({target(r, c) : r \in 0..7, c \in 0..(nb - 1)}) = nb * 8
           /\ (n >= 1 /\ tr[n] = "ShiftRows") =>
                 \A r \in 0..7, c \in 0..(nb - 1) : now[target(r, c)[2]][r] = before[c][r]
           /\ (n >= 1 /\ tr[n] = "InvShiftRows") =>
                 \A r \in 0..7, c \in 0..(nb - 1) : now[c][r] = before[target(r, c)[2]][r]
           /\ (n >= 2 /\ tr[n - 1] = "ShiftRows" /\ tr[n] = "InvShiftRows") =>
                 now = call[1].src

ShiftRowsInverseWitness ==
    /\ sched.mode = "transform" /\ bigEndian
    /\ ctx[1].nb = kNB_512
    /\ call[1].trace = <<"ShiftRows", "InvShiftRows">>
    /\ ctx[1].state = call[1].src
    /\ call[1].arg # call[1].src
    /\ call[1].arg[7][7] = call[1].src[0][7]

\* C12: for all bytes x and y, MultiplyGF(x, y) is the product of the
\* polynomials x and y over GF(2) (no wraparound) reduced modulo
\* x^8 + x^4 + x^3 + x^2 + 1 (0x11D); hence MultiplyGF(x, y) = MultiplyGF(y, x),
\* MultiplyGF(x, 1) = x and MultiplyGF(x, 0) = 0.
MultiplyGFIsFieldProduct ==
    (sched.mode = "multiply" /\ call[1].op = "MultiplyGF") =>
        LET x == call[1].arg[1]
            y == call[1].arg[2]
            z == call[1].ret
            Pow2(k) == 2 ^ k
            Bit(p, k) == (p \div Pow2(k)) % 2
            RECURSIVE Product(_)
            Product(i) == IF i = 8 THEN 0
                          ELSE BitXor(IF Bit(y, i) = 1 THEN x * Pow2(i) ELSE 0, Product(i + 1))
            RECURSIVE Reduced(_, _)
            Reduced(p, k) == IF k < 8 THEN p
                             ELSE Reduced(IF Bit(p, k) = 1 THEN BitXor(p, 285 * Pow2(k - 8)) ELSE p,
                                          k - 1)
        IN /\ z \in Byte
           /\ z = Reduced(Product(0), 14)
           /\ z = MultiplyGF(y, x)
           /\ y = 1 => z = x
           /\ y = 0 => z = 0

MultiplyGFWitness ==
    /\ sched.mode = "multiply" /\ call[1].op = "MultiplyGF"
    /\ call[1].arg = <<173, 202>>
    /\ call[1].ret = MultiplyGF(202, 173)
    /\ call[1].ret \notin {0, 173, 202}

\* C13: on a context KalynaInit returned, in every sequence of KeyExpand,
\* Encipher and Decipher calls, the byte indices of ShiftRows, InvShiftRows,
\* MatrixMultiply, the byte/word conversions and RotateLeft are below
\* nb * 8 <= 64 (RotateLeft's 2 * nb + 3 is below nb * 8), the word indices
\* of the 8-word arrays of the key schedule are below 8, those of the key
\* below nk, the state and every round key have nb words, and the round-key
\* indices used are at most nr.
IndicesInBounds ==
    (handle = "live" /\ sched.mode = "single") =>
        LET nb == ctx[1].nb
            nk == ctx[1].nk
            nr == ctx[1].nr
            bytes == 0..(nb * 8 - 1)
        IN /\ nb * 8 <= MAX_STATE_BYTES
           /\ ShiftRowsIndices(nb) \subseteq bytes
           /\ MatrixMultiplyIndices(nb) \subseteq bytes
           /\ CodecIndices(nb) \subseteq bytes
           /\ RotateLeftIndices(nb) \subseteq bytes
           /\ 2 * nb + 3 < nb * 8
           /\ ScratchIndices(nb, nk) \subseteq 0..7
           /\ KeyIndices(nb, nk) \subseteq 0..(nk - 1)
           /\ DOMAIN ctx[1].state = 0..(nb - 1)
           /\ DOMAIN ctx[1].round_keys = 0..nr
           /\ \A r \in 0..nr : DOMAIN ctx[1].round_keys[r] = 0..(nb - 1)
           /\ \A t \in Callers : RoundKeyIndices(t) \subseteq 0..nr

\* A Decipher call on the largest configuration has used the last byte, the
\* last scratch word and the last round key.
IndicesInBoundsWitness ==
    /\ handle = "live" /\ sched.mode = "single"
    /\ Returned(1, "Decipher") /\ ~call[1].created
    /\ ctx[1].nb = kNB_512 /\ ctx[1].nr = kNR_512
    /\ MAX_STATE_BYTES - 1 \in ShiftRowsIndices(ctx[1].nb)
    /\ MAX_STATE_BYTES - 1 \in RotateLeftIndices(ctx[1].nb)
    /\ 7 \in ScratchIndices(ctx[1].nb, ctx[1].nk)
    /\ RoundKeyIndices(1) = 0..kNR_512

=============================================================================
